---- MODULE Spec2Model ----
(***************************************************************************)
(* SCRAM client of the MongoDB driver (ScramSHA1 / ScramSHA256).           *)
(*                                                                         *)
(* Representation of the JavaScript values:                                *)
(*   - a string is a sequence of one-character strings (so that split,     *)
(*     replace, startsWith and parseInt can be computed);                  *)
(*   - a Buffer is a sequence of bytes 0..255;                             *)
(*   - a value that may be undefined is None or Some(v); a number that may *)
(*     be NaN is NaN or Some(n);                                           *)
(*   - a credential that is not a string is the object NonText.            *)
(* The node `crypto` digests are not computable here: MD5, H, HMAC and     *)
(* PBKDF2 are deterministic stand-ins that mix all of their arguments and  *)
(* return a Buffer of the digest length of the method.                     *)
(***************************************************************************)
EXTENDS Integers, Sequences, FiniteSets, TLC

None == << >>
Some(v) == << v >>
NaN == << >>
\* a value that is not a string (an object): it has no replace method, and
\* Array.prototype.join renders it as one opaque piece of text
NonText == << "[object Object]" >>

(* ------------------------------ characters ----------------------------- *)

Base64Alphabet ==
  << "A","B","C","D","E","F","G","H","I","J","K","L","M",
     "N","O","P","Q","R","S","T","U","V","W","X","Y","Z",
     "a","b","c","d","e","f","g","h","i","j","k","l","m",
     "n","o","p","q","r","s","t","u","v","w","x","y","z",
     "0","1","2","3","4","5","6","7","8","9","+","/" >>

Base64Chars == { Base64Alphabet[i] : i \in 1..64 }

\* index 0..63 of a character of the base64 alphabet
Base64Index(c) == (CHOOSE i \in 1..64 : Base64Alphabet[i] = c) - 1

HexDigits == << "0","1","2","3","4","5","6","7","8","9","a","b","c","d","e","f" >>

\* the soft hyphen U+00AD, the one non-ASCII character of the model
SHY == "<U+00AD>"

\* UTF-8 bytes of one character
CharBytes(c) ==
  IF c \in Base64Chars THEN
    LET i == Base64Index(c) IN
      IF i < 26 THEN << 65 + i >>
      ELSE IF i < 52 THEN << 97 + (i - 26) >>
      ELSE IF i < 62 THEN << 48 + (i - 52) >>
      ELSE IF i = 62 THEN << 43 >> ELSE << 47 >>
  ELSE CASE c = "=" -> << 61 >>
         [] c = "," -> << 44 >>
         [] c = ":" -> << 58 >>
         [] c = "_" -> << 95 >>
         [] c = "-" -> << 45 >>
         [] c = "." -> << 46 >>
         [] c = "$" -> << 36 >>
         [] c = " " -> << 32 >>
         [] c = SHY -> << 194, 173 >>

\* Buffer.from(text, 'utf8'), computed by halving the text
RECURSIVE Utf8Range(_, _, _)
Utf8Range(text, lo, hi) ==
  IF lo > hi THEN << >>
  ELSE IF lo = hi THEN CharBytes(text[lo])
  ELSE LET mid == (lo + hi) \div 2
       IN Utf8Range(text, lo, mid) \o Utf8Range(text, mid + 1, hi)

Utf8(text) == Utf8Range(text, 1, Len(text))

\* Buffer.prototype.toString('base64')
RECURSIVE Base64Encode(_)
Base64Encode(buf) ==
  LET n == Len(buf)
      ch(v) == Base64Alphabet[v + 1]
      hi(b, k) == b \div k
      lo(b, k) == b % k
  IN IF n = 0 THEN << >>
     ELSE IF n = 1 THEN
       << ch(hi(buf[1], 4)), ch(lo(buf[1], 4) * 16), "=", "=" >>
     ELSE IF n = 2 THEN
       << ch(hi(buf[1], 4)), ch(lo(buf[1], 4) * 16 + hi(buf[2], 16)),
          ch(lo(buf[2], 16) * 4), "=" >>
     ELSE
       << ch(hi(buf[1], 4)), ch(lo(buf[1], 4) * 16 + hi(buf[2], 16)),
          ch(lo(buf[2], 16) * 4 + hi(buf[3], 64)), ch(lo(buf[3], 64)) >>
       \o Base64Encode(SubSeq(buf, 4, n))

\* the base64 digits of a text up to its first '=' (node's decoder stops at
\* the padding and skips characters outside the alphabet)
Base64Digits(text) ==
  LET stop == IF \E i \in 1..Len(text) : text[i] = "="
              THEN (CHOOSE i \in 1..Len(text) :
                      text[i] = "=" /\ \A j \in 1..(i - 1) : text[j] # "=") - 1
              ELSE Len(text)
      kept == SelectSeq(SubSeq(text, 1, stop), LAMBDA c : c \in Base64Chars)
  IN [ i \in 1..Len(kept) |-> Base64Index(kept[i]) ]

\* the bytes that a run of base64 digits encodes
Base64Bytes(d) ==
  LET n == Len(d)
      count == (n * 6) \div 8
      byte(k) ==
        LET g == 4 * ((k - 1) \div 3)
            pos == (k - 1) % 3
        IN IF pos = 0 THEN d[g + 1] * 4 + (d[g + 2] \div 16)
           ELSE IF pos = 1 THEN (d[g + 2] % 16) * 16 + (d[g + 3] \div 4)
           ELSE (d[g + 3] % 4) * 64 + d[g + 4]
  IN [ k \in 1..count |-> byte(k) ]

\* Buffer.from(text, 'base64')
Base64Decode(text) == Base64Bytes(Base64Digits(text))

\* Buffer.prototype.toString('hex')
RECURSIVE HexEncode(_)
HexEncode(buf) ==
  IF buf = << >> THEN << >>
  ELSE << HexDigits[(Head(buf) \div 16) + 1], HexDigits[(Head(buf) % 16) + 1] >>
       \o HexEncode(Tail(buf))

\* String(n) for an integer, and for NaN
RECURSIVE NatToText(_)
NatToText(n) ==
  IF n < 10 THEN << HexDigits[n + 1] >>
  ELSE NatToText(n \div 10) \o << HexDigits[(n % 10) + 1] >>

NumberToText(x) ==
  IF x = NaN THEN << "N", "a", "N" >>
  ELSE IF x[1] < 0 THEN << "-" >> \o NatToText(0 - x[1]) ELSE NatToText(x[1])

\* String.prototype.startsWith
StartsWith(text, prefix) ==
  /\ Len(text) >= Len(prefix)
  /\ SubSeq(text, 1, Len(prefix)) = prefix

\* position of the first occurrence of character c in text, 0 when absent
IndexOf(text, c) ==
  IF \E i \in 1..Len(text) : text[i] = c
  THEN CHOOSE i \in 1..Len(text) : text[i] = c /\ \A j \in 1..(i - 1) : text[j] # c
  ELSE 0

\* String.prototype.replace(c, by) with a string pattern: first occurrence only
ReplaceFirst(text, c, by) ==
  LET i == IndexOf(text, c) IN
    IF i = 0 THEN text
    ELSE SubSeq(text, 1, i - 1) \o by \o SubSeq(text, i + 1, Len(text))

\* String.prototype.split(c)
RECURSIVE Split(_, _)
Split(text, c) ==
  LET i == IndexOf(text, c) IN
    IF i = 0 THEN << text >>
    ELSE << SubSeq(text, 1, i - 1) >> \o Split(SubSeq(text, i + 1, Len(text)), c)

\* Array.prototype.join(c) of an array of strings
RECURSIVE Join(_, _)
Join(parts, c) ==
  IF parts = << >> THEN << >>
  ELSE IF Len(parts) = 1 THEN parts[1]
  ELSE parts[1] \o << c >> \o Join(Tail(parts), c)

Digits == { "0","1","2","3","4","5","6","7","8","9" }
DigitValue(c) == Base64Index(c) - 52

RECURSIVE DigitPrefix(_)
DigitPrefix(text) ==
  IF text = << >> \/ Head(text) \notin Digits THEN << >>
  ELSE << Head(text) >> \o DigitPrefix(Tail(text))

RECURSIVE DigitsValue(_, _)
DigitsValue(text, acc) ==
  IF text = << >> THEN acc
  ELSE DigitsValue(Tail(text), acc * 10 + DigitValue(Head(text)))

RECURSIVE SkipSpaces(_)
SkipSpaces(text) ==
  IF text # << >> /\ Head(text) = " " THEN SkipSpaces(Tail(text)) ELSE text

\* parseInt(x, 10) of a value that may be undefined: leading blanks, an
\* optional sign, then the longest run of digits; NaN when there is no digit
parseInt(x) ==
  IF x = None THEN NaN
  ELSE LET t == SkipSpaces(x[1])
           neg == t # << >> /\ Head(t) = "-"
           u == IF t # << >> /\ Head(t) \in { "-", "+" } THEN Tail(t) ELSE t
           d == DigitPrefix(u)
       IN IF d = << >> THEN NaN
          ELSE IF neg THEN Some(0 - DigitsValue(d, 0)) ELSE Some(DigitsValue(d, 0))

\* a ^ b on bytes
RECURSIVE BitXor(_, _)
BitXor(a, b) ==
  IF a = 0 /\ b = 0 THEN 0
  ELSE ((a + b) % 2) + 2 * BitXor(a \div 2, b \div 2)

(* ------------------------- node crypto stand-ins ----------------------- *)

\* position-weighted sum of the bytes lo..hi of a Buffer, computed by halving
RECURSIVE WeightedSum(_, _, _)
WeightedSum(buf, lo, hi) ==
  IF lo > hi THEN 0
  ELSE IF lo = hi THEN ((buf[lo] + 1) * (((lo * 7919) % 1021) + 1)) % 65521
  ELSE LET mid == (lo + hi) \div 2
       IN (WeightedSum(buf, lo, mid) + WeightedSum(buf, mid + 1, hi)) % 65521

\* mixes a Buffer into an accumulator (stand-in for a compression function)
Fold(buf, acc) == (acc * 31 + WeightedSum(buf, 1, Len(buf)) + Len(buf)) % 65521

\* a digest of len bytes determined by the accumulator
Digest(len, acc) ==
  [ k \in 1..len |-> ((acc + 17 * k) * ((acc % 251) + k) + (acc \div 256)) % 256 ]

MethodSeed(method) == IF method = "sha1" THEN 101 ELSE IF method = "sha256" THEN 202 ELSE 303

hiLengthMap == [ sha256 |-> 32, sha1 |-> 20 ]

\* crypto.createHash('md5').update(text, 'utf8').digest('hex')
md5hex(text) == HexEncode(Digest(16, Fold(Utf8(text), MethodSeed("md5"))))

\* crypto.createHash(method).update(text).digest()
H(method, text) == Digest(hiLengthMap[method], Fold(text, MethodSeed(method) + 7))

\* crypto.createHmac(method, key).update(text).digest(); text is a string
HMAC(method, key, text) ==
  Digest(hiLengthMap[method], Fold(Utf8(text), Fold(key, MethodSeed(method) + 13)))

\* the value crypto.pbkdf2Sync derives when it accepts its arguments
pbkdf2(data, salt, iterations, keylen, digest) ==
  Digest(keylen,
         Fold(salt, Fold(Utf8(data), MethodSeed(digest) + 29))
           + (IF iterations = NaN THEN 0 ELSE iterations[1]))

\* crypto.pbkdf2Sync: the set of outcomes, None standing for a thrown
\* exception.  A password that is not a string is rejected.  An iteration
\* count that is 0 or NaN is rejected by the argument validation of recent
\* node releases and accepted by older ones, so both outcomes are possible.
pbkdf2Sync(data, salt, iterations, keylen, digest) ==
  IF data = NonText THEN { None }
  ELSE IF iterations # NaN /\ iterations[1] < 0 THEN { None }
  ELSE IF iterations = NaN \/ iterations[1] = 0
       THEN { None, Some(pbkdf2(data, salt, iterations, keylen, digest)) }
       ELSE { Some(pbkdf2(data, salt, iterations, keylen, digest)) }

\* the saslprep module applied to a string: the soft hyphen is mapped to
\* nothing, the ASCII characters of the model are kept
saslprepText(text) == SelectSeq(text, LAMBDA c : c # SHY)

(* ------------------------------ SCRAM helpers -------------------------- *)

\* new MongoError(message), and new MongoError(r) for a reply document r
MongoError(message) == [ name |-> "MongoError", message |-> message, doc |-> None ]
MongoErrorOf(r) == [ name |-> "MongoError", message |-> "server error", doc |-> Some(r) ]
TypeError == [ name |-> "TypeError", message |-> "TypeError", doc |-> None ]

\* cleanUsername escaping the comma before the equals sign
cleanUsernameCommaFirst(username) ==
  ReplaceFirst(ReplaceFirst(username, ",", << "=", "2", "C" >>), "=", << "=", "3", "D" >>)

cleanUsername(username) ==
  ReplaceFirst(ReplaceFirst(username, "=", << "=", "3", "D" >>), ",", << "=", "2", "C" >>)

\* the result is a Buffer whose bytes are those of this text
clientFirstMessageBare(username, nonce) ==
  << "n", "=" >> \o username \o << ",", "r", "=" >> \o Base64Encode(nonce)

makeFirstMessage(cryptoMethod, credentials, nonce) ==
  LET username == cleanUsername(credentials.username)
      mechanism == IF cryptoMethod = "sha1" THEN "SCRAM-SHA-1" ELSE "SCRAM-SHA-256"
  IN [ name |-> "saslStart",
       mechanism |-> mechanism,
       payload |-> << "n", ",", "," >> \o clientFirstMessageBare(username, nonce),
       autoAuthorize |-> 1,
       skipEmptyExchange |-> TRUE ]

EmptyDict == [ k \in {} |-> None ]
\* an assignment that is lost
PutDropped(dict, k, v) == dict

Put(dict, k, v) == [ x \in (DOMAIN dict) \cup { k } |-> IF x = k THEN v ELSE dict[x] ]
\* dict.k of a parsed payload: undefined for a key that was never assigned
Get(dict, k) == IF k \in DOMAIN dict THEN dict[k] ELSE None

RECURSIVE parseParts(_, _)
parseParts(parts, dict) ==
  IF parts = << >> THEN dict
  ELSE LET valueParts == Split(Head(parts), "=")
       IN parseParts(Tail(parts),
                     Put(dict, valueParts[1],
                         IF Len(valueParts) >= 2 THEN Some(valueParts[2]) ELSE None))

parsePayload(payload) == parseParts(Split(payload, ","), EmptyDict)

\* [ err |-> the MongoError thrown, or None; value |-> the digest ]
passwordDigest(username, password) ==
  IF username = NonText
  THEN [ err |-> Some(MongoError("username must be a string")), value |-> << >> ]
  ELSE IF password = NonText
  THEN [ err |-> Some(MongoError("password must be a string")), value |-> << >> ]
  ELSE IF Len(password) = 0
  THEN [ err |-> Some(MongoError("password cannot be empty")), value |-> << >> ]
  ELSE [ err |-> None,
         value |-> md5hex(username \o << ":", "m", "o", "n", "g", "o", ":" >> \o password) ]

\* a[i] ^ b[i] with a missing byte read as undefined, which ^ treats as 0
xor(a, b) ==
  LET length == IF Len(a) >= Len(b) THEN Len(a) ELSE Len(b)
      at(x, i) == IF i <= Len(x) THEN x[i] ELSE 0
  IN Base64Encode([ i \in 1..length |-> BitXor(at(a, i), at(b, i)) ])

\* compareDigest without the byte comparison
compareDigestLengthOnly(lhs, rhs) == Len(lhs) = Len(rhs)

\* crypto.timingSafeEqual and the fallback loop both decide byte equality
compareDigest(lhs, rhs) ==
  IF Len(lhs) # Len(rhs) THEN FALSE
  ELSE \A i \in 1..Len(lhs) : BitXor(lhs[i], rhs[i]) = 0

\* JavaScript truthiness of a field that is undefined or a string
Truthy(field) == field # None /\ field[1] # << >>

\* resolveError without the inspection of the reply document
resolveErrorTransportOnly(err, result) == err

\* err: the transport error or None; result: the command result or None
resolveError(err, result) ==
  IF err # None THEN err
  ELSE IF result # None /\ (Truthy(result[1].dollarErr) \/ Truthy(result[1].errmsg))
       THEN Some(MongoErrorOf(result[1]))
       ELSE None

(* --------------------------------- bounds ------------------------------ *)

\* authentication attempts made by the process
MaxAttempts == 2

(* ------------------------------ the process ---------------------------- *)

VARIABLES
  cryptoMethod,   \* ScramSHA.cryptoMethod of the provider in use
  saslprep,       \* TRUE when require('saslprep') succeeded
  authContext,    \* credentials, nonce, response
  pc,             \* where the attempt stands
  sent,           \* the commands submitted through connection.command, in order
  outstanding,    \* commands submitted and not yet answered
  callbacks,      \* the invocations of the callback given to auth
  thrown,         \* the exception that escaped, if any
  replies,        \* what the connection handed to the handlers, in order
  serverSignature,\* captured by the saslContinue reply handler
  authMessage,    \* the authMessage both signatures were computed over
  prepared,       \* the invocations of the callback given to prepare
  warnings,       \* console.warn calls of the process
  _hiCache,
  _hiCacheCount,
  hiLog,          \* instrumentation: the last two calls of HI
  pbkdf2Calls,    \* instrumentation: calls of crypto.pbkdf2Sync
  attempts,
  cancelRequested,\* the caller has asked to cancel the attempt
  fnIn,           \* argument of the helper under study
  fnOut,          \* its result
  server,         \* the Server given to command(): its ismaster and autoEncrypter
  issued,         \* the cmd given to command()
  options,        \* the options given to command()
  session,        \* options.session and its transaction
  pending         \* the handler _command has registered with the pool

vars == << cryptoMethod, saslprep, authContext, pc, sent, outstanding, callbacks,
           thrown, replies, serverSignature, authMessage, prepared, warnings,
           _hiCache, _hiCacheCount, hiLog, pbkdf2Calls, attempts,
           cancelRequested, fnIn, fnOut,
           server, issued, options, session, pending >>

HiCacheLimit == 200
NonceLength == 24

\* the new cache after _hiCachePurge()
_hiCachePurge == [ cache |-> EmptyDict, count |-> 0 ]

\* the cache key HI builds: [data, salt.toString('base64'), iterations].join('_')
HIKey(data, salt, iterations) ==
  Join(<< data, Base64Encode(salt), NumberToText(iterations) >>, "_")

\* HI purging only once the cache holds more than HiCacheLimit entries
HIPurgingLate(data, salt, iterations, method, cache, count) ==
  LET key == HIKey(data, salt, iterations)
  IN IF key \in DOMAIN cache
     THEN { [ value |-> Some(cache[key]), cache |-> cache, count |-> count,
              computed |-> FALSE ] }
     ELSE { IF saltedData = None
            THEN [ value |-> None, cache |-> cache, count |-> count, computed |-> TRUE ]
            ELSE LET base == IF count > HiCacheLimit
                             THEN _hiCachePurge
                             ELSE [ cache |-> cache, count |-> count ]
                 IN [ value |-> saltedData,
                      cache |-> Put(base.cache, key, saltedData[1]),
                      count |-> base.count + 1,
                      computed |-> TRUE ]
            : saltedData \in pbkdf2Sync(data, salt, iterations, hiLengthMap[method], method) }

\* HI on a given cache: the set of outcomes [ value, cache, count, computed ],
\* value being None when pbkdf2Sync throws and computed telling whether
\* pbkdf2Sync was called
HI(data, salt, iterations, method, cache, count) ==
  LET key == HIKey(data, salt, iterations)
  IN IF key \in DOMAIN cache
     THEN { [ value |-> Some(cache[key]), cache |-> cache, count |-> count,
              computed |-> FALSE ] }
     ELSE { IF saltedData = None
            THEN [ value |-> None, cache |-> cache, count |-> count, computed |-> TRUE ]
            ELSE LET base == IF count >= HiCacheLimit
                             THEN _hiCachePurge
                             ELSE [ cache |-> cache, count |-> count ]
                 IN [ value |-> saltedData,
                      cache |-> Put(base.cache, key, saltedData[1]),
                      count |-> base.count + 1,
                      computed |-> TRUE ]
            : saltedData \in pbkdf2Sync(data, salt, iterations, hiLengthMap[method], method) }

\* the instrumentation of one call of HI
Logged(hi, data, salt, iterations, method) ==
  /\ hiLog' = (IF Len(hiLog) < 2 THEN hiLog ELSE Tail(hiLog))
                \o << [ key |-> HIKey(data, salt, iterations), data |-> data, salt |-> salt,
                        iterations |-> iterations, method |-> method,
                        computed |-> hi.computed, value |-> hi.value,
                        cached |-> HIKey(data, salt, iterations) \in DOMAIN _hiCache,
                        sizeBefore |-> Cardinality(DOMAIN _hiCache) ] >>
  /\ pbkdf2Calls' = IF hi.computed THEN pbkdf2Calls + 1 ELSE pbkdf2Calls

(* ------------------------------- inputs -------------------------------- *)

Usernames == { << "u", "s", "e", "r" >>, << "a", "=", "b", ",", "c" >>, NonText }
Passwords == { << "p", "e", "n", "c", "i", "l" >>, << >>, NonText }
Sources == { << "a", "d", "m", "i", "n" >> }

\* the credentials of the attempts: usable ones, and ones with one bad field
Credentials ==
  { [ username |-> u, password |-> p, source |-> s ] :
      u \in Usernames, p \in Passwords, s \in Sources }
  \ { c \in [ username : Usernames, password : Passwords, source : Sources ] :
        c.username # << "u", "s", "e", "r" >> /\ c.password # << "p", "e", "n", "c", "i", "l" >> }

\* the outcomes of crypto.randomBytes(NonceLength)
RandomNonces == { [ i \in 1..NonceLength |-> (i * 37 + 11) % 256 ] }

SaltText == << "Q","S","X","C","R","+","Q","6","s","e","k","8","b","f","9","2" >>
ServerNonce == << "3", "r", "f", "c" >>

Attr(k, v) == << k, "=" >> \o v

\* the base64 nonce the client sent, as the server saw it
ClientNonceText ==
  IF authContext.nonce = None THEN << "A", "A", "A", "A" >>
  ELSE Base64Encode(authContext.nonce[1])

\* server-first payloads
GoodServerFirst ==
  Join(<< Attr("r", ClientNonceText \o ServerNonce), Attr("s", SaltText),
          Attr("i", << "4", "0", "9", "6" >>) >>, ",")

ServerFirstWithIterations(i) ==
  Join(<< Attr("r", ClientNonceText \o ServerNonce), Attr("s", SaltText), Attr("i", i) >>, ",")

ServerFirstWithNonce(r) ==
  Join(<< Attr("r", r), Attr("s", SaltText), Attr("i", << "4", "0", "9", "6" >>) >>, ",")

IterationTexts ==
  { << "4", "0", "9", "6" >>, << "4", "0", "9", "5" >>, << "0" >>, << "-", "1" >>,
    << "a", "b", "c" >> }

ServerFirstPayloads ==
  { ServerFirstWithIterations(i) : i \in IterationTexts }
  \cup { ServerFirstWithNonce(r) :
           r \in { << "X", "Y", "Z" >> \o ServerNonce,
                   << "n", "o", "n", "c", "e" >> \o ClientNonceText } }
  \cup { \* no i, no r, no s
         Join(<< Attr("r", ClientNonceText \o ServerNonce), Attr("s", SaltText) >>, ","),
         Join(<< Attr("s", SaltText), Attr("i", << "4", "0", "9", "6" >>) >>, ","),
         Join(<< Attr("r", ClientNonceText \o ServerNonce),
                 Attr("i", << "4", "0", "9", "6" >>) >>, ",") }

ConversationIds == { Some(1), Some(2), None }
DoneValues == { "true", "false", "absent" }

Doc(conversationId, payload, done) ==
  [ conversationId |-> conversationId, payload |-> payload, done |-> done,
    errmsg |-> None, dollarErr |-> None ]

ErrorDocs ==
  { [ conversationId |-> None, payload |-> << >>, done |-> "absent",
      errmsg |-> Some(<< "b", "a", "d" >>), dollarErr |-> None ],
    [ conversationId |-> None, payload |-> << >>, done |-> "absent",
      errmsg |-> None, dollarErr |-> Some(<< "b", "a", "d" >>) ] }

ServerFirstDocs == { Doc(Some(1), p, "false") : p \in ServerFirstPayloads }

TransportError ==
  [ name |-> "MongoNetworkError", message |-> "connection closed", doc |-> None ]

\* what connection.command hands to its callback: (err, result)
Delivery(err, doc) == [ err |-> err, result |-> doc ]

\* a Buffer that differs from buf in the lowest bit of its first byte
FlipBit(buf) == [ buf EXCEPT ![1] = BitXor(buf[1], 1) ]

\* server-final payloads for the signature the client expects
ServerFinalPayloads ==
  { Attr("v", Base64Encode(serverSignature)),
    Attr("v", Base64Encode(FlipBit(serverSignature))),
    Attr("v", Base64Encode(SubSeq(serverSignature, 1, Len(serverSignature) - 1))),
    Attr("e", << "o", "t", "h", "e", "r", "-", "e", "r", "r", "o", "r" >>) }

RetryDocs == { Doc(Some(1), << >>, "true") }

\* replies to the client-final saslContinue: every payload with every done
\* under the conversationId of the conversation, and the replies that ask
\* for the empty exchange under every conversationId
FinalDocs ==
  { Doc(Some(1), p, d) : p \in ServerFinalPayloads, d \in DoneValues }
  \cup { Doc(c, p, "false") : c \in ConversationIds, p \in ServerFinalPayloads }

\* answers of the connection to a command whose success replies are docs
Deliveries(docs) ==
  { Delivery(Some(TransportError), None) }
  \cup { Delivery(None, Some(d)) : d \in docs \cup ErrorDocs }

\* authContext.response as left by the handshake
Responses ==
  { None, Some([ speculativeAuthenticate |-> None ]) }
  \cup { Some([ speculativeAuthenticate |-> Some(d) ]) : d \in ServerFirstDocs }

(* ------------------------------- actions ------------------------------- *)

MinIterations == 4096

\* the second argument of a callback invocation
Absent == [ kind |-> "absent", doc |-> None ]
False == [ kind |-> "false", doc |-> None ]
DocResult(r) == [ kind |-> "doc", doc |-> Some(r) ]
CommandResult(result) == [ kind |-> "commandResult", doc |-> result ]

\* the namespace without the $cmd collection
NamespaceWithoutCmd(db) == db

\* `${db}.$cmd`
Namespace(db) == db \o << ".", "$", "c", "m", "d" >>

\* callback(err, result): the attempt is over
Deliver(err, result, out) ==
  /\ callbacks' = Append(callbacks, [ err |-> err, result |-> result ])
  /\ pc' = "done"
  /\ outstanding' = out
  /\ UNCHANGED << thrown, sent, serverSignature, authMessage >>

\* an exception escapes the running function
Raise(e, out) ==
  /\ thrown' = Some(e)
  /\ pc' = "thrown"
  /\ outstanding' = out
  /\ UNCHANGED << callbacks, sent, serverSignature, authMessage >>

\* connection.command(ns, cmd, handler)
Command(ns, cmd, next, out) ==
  /\ sent' = Append(sent, [ ns |-> ns, cmd |-> cmd ])
  /\ outstanding' = out + 1
  /\ pc' = next
  /\ UNCHANGED << callbacks, thrown >>

KeepCache == UNCHANGED << _hiCache, _hiCacheCount, hiLog, pbkdf2Calls >>

\* continueScramConversation(cryptoMethod, response, authContext, callback)
\* up to the submission of the saslContinue; out is the number of commands
\* outstanding when it runs
continueScramConversation(response, out) ==
  LET credentials == authContext.credentials
      nonce == authContext.nonce[1]
      db == credentials.source
      username == cleanUsername(credentials.username)
      password == credentials.password
      digest == passwordDigest(username, password)
      processedPassword ==
        IF cryptoMethod = "sha256"
        THEN (IF saslprep THEN saslprepText(password) ELSE password)
        ELSE digest.value
      \* payload.value() is the text of the payload, and toString('base64')
      \* of a string is that string
      payload == response.payload
      dict == parsePayload(payload)
      iterations == parseInt(Get(dict, << "i" >>))
      salt == Get(dict, << "s" >>)
      rnonce == Get(dict, << "r" >>)
      withoutProof == << "c", "=", "b", "i", "w", "s", ",", "r", "=" >> \o rnonce[1]
  IN
  IF authContext.nonce = None THEN
    /\ Deliver(Some(MongoError("Unable to continue SCRAM without valid nonce")), Absent, out)
    /\ KeepCache
  ELSE IF credentials.username = NonText THEN
    \* username.replace is not a function
    Raise(TypeError, out) /\ KeepCache
  ELSE IF cryptoMethod = "sha256" /\ saslprep /\ password = NonText THEN
    \* saslprep throws on a value that is not a string
    Raise(TypeError, out) /\ KeepCache
  ELSE IF cryptoMethod # "sha256" /\ digest.err # None THEN
    Deliver(digest.err, Absent, out) /\ KeepCache
  ELSE IF iterations # NaN /\ iterations[1] # 0 /\ iterations[1] < MinIterations THEN
    /\ Deliver(Some(MongoError("Server returned an invalid iteration count")), False, out)
    /\ KeepCache
  ELSE IF rnonce = None THEN
    \* rnonce.startsWith of undefined
    Raise(TypeError, out) /\ KeepCache
  ELSE IF StartsWith(rnonce[1], << "n", "o", "n", "c", "e" >>) THEN
    /\ Deliver(Some(MongoError("Server returned an invalid nonce")), False, out)
    /\ KeepCache
  ELSE IF salt = None THEN
    \* Buffer.from(undefined, 'base64')
    Raise(TypeError, out) /\ KeepCache
  ELSE
    \E hi \in HI(processedPassword, Base64Decode(salt[1]), iterations, cryptoMethod,
                 _hiCache, _hiCacheCount) :
      /\ UNCHANGED << hiLog, pbkdf2Calls >>
      /\ _hiCache' = hi.cache
      /\ _hiCacheCount' = hi.count
      /\ IF hi.value = None
         THEN Raise(TypeError, out)
         ELSE
            LET saltedPassword == hi.value[1]
                clientKey == HMAC(cryptoMethod, saltedPassword,
                                  << "C", "l", "i", "e", "n", "t", " ", "K", "e", "y" >>)
                serverKey == HMAC(cryptoMethod, saltedPassword,
                                  << "S", "e", "r", "v", "e", "r", " ", "K", "e", "y" >>)
                storedKey == H(cryptoMethod, clientKey)
                message ==
                  Join(<< clientFirstMessageBare(username, nonce), payload, withoutProof >>,
                       ",")
                clientSignature == HMAC(cryptoMethod, storedKey, message)
                clientProof == << "p", "=" >> \o xor(clientKey, clientSignature)
                clientFinal == Join(<< withoutProof, clientProof >>, ",")
                saslContinueCmd ==
                  [ name |-> "saslContinue",
                    conversationId |-> response.conversationId,
                    payload |-> clientFinal ]
            IN /\ authMessage' = message
               /\ serverSignature' = HMAC(cryptoMethod, serverKey, message)
               /\ Command(Namespace(db), saslContinueCmd, "waitContinue", out)

\* executeScram taking a missing nonce for an empty one
executeScramWithoutNonceCheck ==
  LET credentials == authContext.credentials
      db == credentials.source
      nonce == IF authContext.nonce = None THEN << >> ELSE authContext.nonce[1]
  IN
  IF credentials.username = NonText THEN
    Raise(TypeError, 0) /\ KeepCache
  ELSE
    /\ Command(Namespace(db), makeFirstMessage(cryptoMethod, credentials, nonce),
               "waitStart", 0)
    /\ UNCHANGED << serverSignature, authMessage >>
    /\ KeepCache

\* executeScram(cryptoMethod, authContext, callback)
executeScram ==
  LET credentials == authContext.credentials
      db == credentials.source
  IN
  IF authContext.nonce = None THEN
    /\ Deliver(Some(MongoError("AuthContext must contain a valid nonce property")), Absent, 0)
    /\ KeepCache
  ELSE IF credentials.username = NonText THEN
    \* makeFirstMessage: username.replace is not a function
    Raise(TypeError, 0) /\ KeepCache
  ELSE
    /\ Command(Namespace(db),
               makeFirstMessage(cryptoMethod, credentials, authContext.nonce[1]),
               "waitStart", 0)
    /\ UNCHANGED << serverSignature, authMessage >>
    /\ KeepCache

\* ScramSHA.prepare up to the call of crypto.randomBytes
Prepare ==
  /\ pc = "new"
  /\ warnings' = IF cryptoMethod = "sha256" /\ ~saslprep THEN warnings + 1 ELSE warnings
  /\ pc' = "randomBytes"
  /\ UNCHANGED << cryptoMethod, saslprep, authContext, sent, outstanding, callbacks,
                  thrown, replies, serverSignature, authMessage, prepared,
                  _hiCache, _hiCacheCount, hiLog, pbkdf2Calls, attempts,
                  cancelRequested, fnIn, server, issued, options, session, pending, fnOut >>

RandomnessError == [ name |-> "Error", message |-> "randomBytes failed", doc |-> None ]

\* the callback prepare gives to crypto.randomBytes
RandomBytesDone ==
  /\ pc = "randomBytes"
  /\ \/ /\ prepared' = Append(prepared, [ err |-> Some(RandomnessError), request |-> None ])
        /\ pc' = "prepareFailed"
        /\ UNCHANGED << authContext, thrown >>
     \/ \E nonce \in RandomNonces :
          LET credentials == authContext.credentials IN
          /\ authContext' = [ authContext EXCEPT !.nonce = Some(nonce) ]
          /\ IF credentials.username = NonText
             THEN /\ thrown' = Some(TypeError)
                  /\ pc' = "thrown"
                  /\ UNCHANGED prepared
             ELSE /\ prepared' = Append(prepared,
                       [ err |-> None,
                         request |-> Some([ ismaster |-> TRUE,
                           speculativeAuthenticate |->
                             [ command |-> makeFirstMessage(cryptoMethod, credentials, nonce),
                               db |-> credentials.source ] ]) ])
                  /\ pc' = "prepared"
                  /\ UNCHANGED thrown
  /\ UNCHANGED << cryptoMethod, saslprep, sent, outstanding, callbacks, replies,
                  serverSignature, authMessage, warnings, _hiCache, _hiCacheCount,
                  hiLog, pbkdf2Calls, attempts, cancelRequested, fnIn, server, issued, options, session, pending, fnOut >>

\* auth without the speculative branch
AuthNeverSpeculative ==
  /\ pc \in { "new", "prepared", "prepareFailed" }
  /\ \E response \in Responses :
       /\ authContext' = [ authContext EXCEPT !.response = response ]
       /\ executeScram
  /\ UNCHANGED << cryptoMethod, saslprep, replies, prepared, warnings, attempts,
                  cancelRequested, fnIn, server, issued, options, session, pending, fnOut >>

\* ScramSHA.auth on the authContext the handshake left
Auth ==
  /\ pc \in { "new", "prepared", "prepareFailed" }
  /\ \E response \in Responses :
       /\ authContext' = [ authContext EXCEPT !.response = response ]
       /\ IF response # None /\ response[1].speculativeAuthenticate # None
          THEN continueScramConversation(response[1].speculativeAuthenticate[1], 0)
          ELSE executeScram
  /\ UNCHANGED << cryptoMethod, saslprep, replies, prepared, warnings, attempts,
                  cancelRequested, fnIn, server, issued, options, session, pending, fnOut >>

\* the handler executeScram gives to connection.command
StartReply ==
  /\ pc = "waitStart"
  /\ \E d \in Deliveries(ServerFirstDocs) :
       LET err == resolveError(d.err, d.result) IN
       /\ replies' = Append(replies, d)
       /\ IF err # None
          THEN Deliver(err, Absent, outstanding - 1) /\ KeepCache
          ELSE continueScramConversation(d.result[1], outstanding - 1)
  /\ UNCHANGED << cryptoMethod, saslprep, authContext, prepared, warnings, attempts,
                  cancelRequested, fnIn, server, issued, options, session, pending, fnOut >>

\* the handler continueScramConversation gives to connection.command
ContinueReply ==
  /\ pc = "waitContinue"
  /\ \E d \in Deliveries(FinalDocs) :
       LET err == resolveError(d.err, d.result)
           r == d.result[1]
           parsedResponse == parsePayload(r.payload)
           v == Get(parsedResponse, << "v" >>)
           retrySaslContinueCmd ==
             [ name |-> "saslContinue",
               conversationId |-> r.conversationId,
               payload |-> << >> ]
       IN
       /\ replies' = Append(replies, d)
       /\ IF err # None THEN
            Deliver(err, Absent, outstanding - 1)
          ELSE IF v = None THEN
            \* Buffer.from(undefined, 'base64')
            Raise(TypeError, outstanding - 1)
          ELSE IF ~compareDigest(Base64Decode(v[1]), serverSignature) THEN
            Deliver(Some(MongoError("Server returned an invalid signature")), Absent,
                    outstanding - 1)
          ELSE IF r.done # "false" THEN
            Deliver(None, DocResult(r), outstanding - 1)
          ELSE
            /\ Command(Namespace(authContext.credentials.source), retrySaslContinueCmd,
                       "waitRetry", outstanding - 1)
            /\ UNCHANGED << serverSignature, authMessage >>
  /\ UNCHANGED << cryptoMethod, saslprep, authContext, prepared, warnings,
                  _hiCache, _hiCacheCount, hiLog, pbkdf2Calls, attempts,
                  cancelRequested, fnIn, server, issued, options, session, pending, fnOut >>

\* the empty saslContinue answered by a handler that drops the error
RetryReplyDroppingError ==
  /\ pc = "waitRetry"
  /\ \E d \in Deliveries(RetryDocs) :
       /\ replies' = Append(replies, d)
       /\ Deliver(None, CommandResult(d.result), outstanding - 1)
  /\ UNCHANGED << cryptoMethod, saslprep, authContext, prepared, warnings,
                  _hiCache, _hiCacheCount, hiLog, pbkdf2Calls, attempts,
                  cancelRequested, fnIn, server, issued, options, session, pending, fnOut >>

\* the caller's callback, given to connection.command for the empty saslContinue
RetryReply ==
  /\ pc = "waitRetry"
  /\ \E d \in Deliveries(RetryDocs) :
       /\ replies' = Append(replies, d)
       /\ Deliver(d.err, CommandResult(d.result), outstanding - 1)
  /\ UNCHANGED << cryptoMethod, saslprep, authContext, prepared, warnings,
                  _hiCache, _hiCacheCount, hiLog, pbkdf2Calls, attempts,
                  cancelRequested, fnIn, server, issued, options, session, pending, fnOut >>

\* the process starts another attempt with the same provider and credentials
NewAttempt ==
  /\ pc \in { "done", "thrown", "prepareFailed" }
  /\ attempts < MaxAttempts
  /\ attempts' = attempts + 1
  /\ authContext' = [ authContext EXCEPT !.nonce = None, !.response = None ]
  /\ pc' = "new"
  /\ sent' = << >>
  /\ outstanding' = 0
  /\ callbacks' = << >>
  /\ thrown' = None
  /\ replies' = << >>
  /\ serverSignature' = << >>
  /\ authMessage' = << >>
  /\ prepared' = << >>
  /\ UNCHANGED << cryptoMethod, saslprep, warnings, _hiCache, _hiCacheCount,
                  hiLog, pbkdf2Calls, cancelRequested, fnIn, server, issued, options, session, pending, fnOut >>

Init ==
  /\ cryptoMethod \in { "sha1", "sha256" }
  /\ saslprep \in BOOLEAN
  /\ \E c \in Credentials :
       authContext = [ credentials |-> c, nonce |-> None, response |-> None ]
  /\ pc = "new"
  /\ sent = << >>
  /\ outstanding = 0
  /\ callbacks = << >>
  /\ thrown = None
  /\ replies = << >>
  /\ serverSignature = << >>
  /\ authMessage = << >>
  /\ prepared = << >>
  /\ warnings = 0
  /\ _hiCache = EmptyDict
  /\ _hiCacheCount = 0
  /\ hiLog = << >>
  /\ pbkdf2Calls = 0
  /\ attempts = 1
  /\ cancelRequested = FALSE
  /\ server = None
  /\ issued = None
  /\ options = None
  /\ session = None
  /\ pending = None
  /\ fnIn = << >>
  /\ fnOut = << >>

Next ==
  \/ Prepare
  \/ RandomBytesDone
  \/ Auth
  \/ StartReply
  \/ ContinueReply
  \/ RetryReply
  \/ NewAttempt

Spec == Init /\ [][Next]_vars

(* ------------------------- vocabulary of the claims -------------------- *)

\* the handshake response carried a speculativeAuthenticate document
Speculative ==
  authContext.response # None /\ authContext.response[1].speculativeAuthenticate # None

\* position, among the commands of the attempt, of the saslContinue that
\* carries the client-final message
FinalIndex == IF Speculative THEN 1 ELSE 2

\* the connection reported a transport error or an error document
IsErrorDelivery(d) ==
  \/ d.err # None
  \/ d.result[1].errmsg # None
  \/ d.result[1].dollarErr # None

\* the server-first document the attempt has processed, if any
ServerFirstDoc ==
  IF Speculative THEN authContext.response[1].speculativeAuthenticate
  ELSE IF Len(replies) >= 1 /\ ~IsErrorDelivery(replies[1]) THEN replies[1].result
  ELSE None

ServerFirstDict == parsePayload(ServerFirstDoc[1].payload)
ServerFirstIterations == parseInt(Get(ServerFirstDict, << "i" >>))
ServerFirstNonce == Get(ServerFirstDict, << "r" >>)

\* credentials that pass password preparation with either mechanism
CredentialsUsable ==
  /\ authContext.credentials.username # NonText
  /\ authContext.credentials.password # NonText
  /\ authContext.credentials.password # << >>

ServerFirstProcessed ==
  ServerFirstDoc # None /\ authContext.nonce # None /\ CredentialsUsable

\* the reply to the client-final saslContinue has been handled
HasFinalReply == ServerFirstDoc # None /\ Len(replies) >= FinalIndex
FinalReply == replies[FinalIndex]
FinalReplyV == Get(parsePayload(FinalReply.result[1].payload), << "v" >>)
FinalReplyE == Get(parsePayload(FinalReply.result[1].payload), << "e" >>)
HasServerFinal == HasFinalReply /\ ~IsErrorDelivery(FinalReply)
SignatureMatches ==
  HasServerFinal /\ FinalReplyV # None /\ Base64Decode(FinalReplyV[1]) = serverSignature
SignatureDiffers ==
  HasServerFinal /\ FinalReplyV # None /\ Base64Decode(FinalReplyV[1]) # serverSignature

OnlyCallback(err, result) == callbacks = << [ err |-> err, result |-> result ] >>

CommandKind(c) ==
  IF c.cmd.name = "saslStart" THEN "saslStart"
  ELSE IF c.cmd.payload = << >> THEN "empty" ELSE "final"

(* --------------------------------- C1 ---------------------------------- *)

\* C1: the attempt succeeds only if the decoded v of the server-final reply
\* equals the server signature the client computed; when v differs the
\* invalid-signature error is delivered and the client-final saslContinue
\* stays the last command submitted, whatever done says.
C1_SignatureVerified ==
  /\ (pc = "done" /\ Len(callbacks) = 1 /\ callbacks[1].err = None) => SignatureMatches
  /\ SignatureDiffers =>
       /\ pc = "done"
       /\ OnlyCallback(Some(MongoError("Server returned an invalid signature")), Absent)
       /\ Len(sent) = FinalIndex
       /\ outstanding = 0

C1_Witness ==
  /\ SignatureDiffers
  /\ FinalReply.result[1].done = "false"
  /\ pc = "done"

(* --------------------------------- C2 ---------------------------------- *)

WeakIterations ==
  ServerFirstIterations = NaN \/ ServerFirstIterations[1] < MinIterations

\* C2: a server-first message whose i is not a number >= 4096 ends the
\* attempt with the iteration-count error and without a saslContinue; with
\* i = 4096 (and a well-formed r and s) the saslContinue is submitted.
C2_WeakIterationsRejected ==
  /\ (ServerFirstProcessed /\ WeakIterations) =>
       /\ pc = "done"
       /\ OnlyCallback(Some(MongoError("Server returned an invalid iteration count")), False)
       /\ Len(sent) = FinalIndex - 1
  /\ (ServerFirstProcessed /\ ServerFirstDoc[1].payload = GoodServerFirst) =>
       Len(sent) >= FinalIndex

(* --------------------------------- C3 ---------------------------------- *)

BadNonce ==
  /\ ServerFirstNonce # None
  /\ \/ ~StartsWith(ServerFirstNonce[1], ClientNonceText)
     \/ StartsWith(ServerFirstNonce[1], << "n", "o", "n", "c", "e" >>)

\* C3: a server-first message whose r does not extend the client's base64
\* nonce, or starts with "nonce", ends the attempt with the invalid-nonce
\* error and without a saslContinue.
C3_BadNonceRejected ==
  (ServerFirstProcessed /\ ~WeakIterations /\ BadNonce) =>
    /\ pc = "done"
    /\ OnlyCallback(Some(MongoError("Server returned an invalid nonce")), False)
    /\ Len(sent) = FinalIndex - 1

(* --------------------------------- C4 ---------------------------------- *)

\* C4: after a server-final reply with a valid signature, done = false leads
\* to exactly one more command, a saslContinue with an empty payload, whose
\* reply is handed to the caller as it came; any other done ends the attempt
\* with that reply and no further command.
C4_DoneDecidesRetry ==
  SignatureMatches =>
    LET r == FinalReply.result[1] IN
    IF r.done = "false"
    THEN /\ Len(sent) = FinalIndex + 1
         /\ CommandKind(sent[FinalIndex + 1]) = "empty"
         /\ IF Len(replies) > FinalIndex
            THEN /\ pc = "done"
                 /\ OnlyCallback(replies[FinalIndex + 1].err,
                                 CommandResult(replies[FinalIndex + 1].result))
            ELSE pc = "waitRetry" /\ callbacks = << >>
    ELSE /\ pc = "done"
         /\ OnlyCallback(None, DocResult(r))
         /\ Len(sent) = FinalIndex

C4_Witness ==
  /\ SignatureMatches
  /\ FinalReply.result[1].done = "false"
  /\ Len(replies) = FinalIndex + 1
  /\ replies[FinalIndex + 1].err # None
  /\ pc = "done"

(* --------------------------------- C5 ---------------------------------- *)

\* C5: with a speculative response no saslStart is ever submitted: the
\* commands are the client-final saslContinue built from that document,
\* then at most one empty saslContinue; without one the first command is
\* the saslStart.
C5_SpeculativeSkipsSaslStart ==
  /\ Speculative =>
       LET doc == authContext.response[1].speculativeAuthenticate[1] IN
       /\ \A i \in 1..Len(sent) : sent[i].cmd.name # "saslStart"
       /\ Len(sent) <= 2
       /\ Len(sent) >= 1 =>
            /\ CommandKind(sent[1]) = "final"
            /\ sent[1].cmd.conversationId = doc.conversationId
            /\ StartsWith(sent[1].cmd.payload,
                          << "c", "=", "b", "i", "w", "s", ",", "r", "=" >>
                            \o Get(parsePayload(doc.payload), << "r" >>)[1])
       /\ Len(sent) = 2 => CommandKind(sent[2]) = "empty"
  /\ (~Speculative /\ Len(sent) >= 1) => sent[1].cmd.name = "saslStart"

C5_Witness == Speculative /\ Len(sent) = 2 /\ pc = "done"

(* --------------------------------- C6 ---------------------------------- *)

\* C6: at most one command is outstanding, a command is submitted only when
\* every earlier one has been answered, the order is saslStart (absent when
\* speculative), client-final saslContinue, empty saslContinue, there are at
\* most three commands (two when speculative), all sent to "<source>.$cmd".
C6_StrictlySequential ==
  LET expected == IF Speculative THEN << "final", "empty" >>
                  ELSE << "saslStart", "final", "empty" >>
  IN /\ outstanding \in { 0, 1 }
     /\ outstanding = Len(sent) - Len(replies)
     /\ Len(sent) <= Len(expected)
     /\ \A i \in 1..Len(sent) :
          /\ CommandKind(sent[i]) = expected[i]
          /\ sent[i].ns = authContext.credentials.source \o << ".", "$", "c", "m", "d" >>

C6_Witness == ~Speculative /\ Len(sent) = 3 /\ outstanding = 1

(* --------------------------------- C7 ---------------------------------- *)

\* C7: every saslContinue of the attempt carries the conversationId of the
\* server-first document, whatever conversationId later replies carry.
C7_ConversationIdEchoed ==
  ServerFirstDoc # None =>
    \A i \in 1..Len(sent) :
      sent[i].cmd.name = "saslContinue" =>
        sent[i].cmd.conversationId = ServerFirstDoc[1].conversationId

(* --------------------------------- C8 ---------------------------------- *)

InvalidInputErrors ==
  { MongoError("username must be a string"), MongoError("password must be a string"),
    MongoError("password cannot be empty") }

\* C9: with SCRAM-SHA-1, an empty password or credentials that are not text
\* fail the attempt with the invalid-input error while no command at all has
\* been submitted.
C9_InvalidInputBeforeIO ==
  (cryptoMethod = "sha1" /\ ~CredentialsUsable /\ authContext.nonce # None) =>
    /\ sent = << >>
    /\ pc = "done" => (Len(callbacks) = 1 /\ callbacks[1].err # None
                       /\ callbacks[1].err[1] \in InvalidInputErrors)

(* --------------------------------- C10 --------------------------------- *)

\* C10: a server-final payload with an e attribute and no v attribute ends
\* the attempt with an error delivered through the callback, and the
\* client-final saslContinue stays the last command submitted.
C10_SaslErrorDelivered ==
  (HasServerFinal /\ FinalReplyV = None /\ FinalReplyE # None) =>
    /\ pc = "done"
    /\ Len(callbacks) = 1
    /\ callbacks[1].err # None
    /\ Len(sent) = FinalIndex

(* ------------------------- the derivation cache ------------------------ *)

\* key derivations made by the process
MaxDerivations == 202

Methods == { "sha1", "sha256" }

\* the processed password and the salt of the authentications under study
CacheData == << "p", "e", "n", "c", "i", "l" >>
CacheSalt == Base64Decode(SaltText)

\* the iteration count announced to the authentication that follows n
\* derivations
KeyIterations(n) == Some(MinIterations + n)

LastHI == hiLog[Len(hiLog)]

\* the key derivation of one authentication:
\* HI(processedPassword, Buffer.from(salt, 'base64'), iterations, cryptoMethod)
HICall(method, iterations) ==
  \E hi \in HI(CacheData, CacheSalt, iterations, method, _hiCache, _hiCacheCount) :
    /\ Logged(hi, CacheData, CacheSalt, iterations, method)
    /\ _hiCache' = hi.cache
    /\ _hiCacheCount' = hi.count
    /\ UNCHANGED << cryptoMethod, saslprep, authContext, pc, sent, outstanding,
                    callbacks, thrown, replies, serverSignature, authMessage,
                    prepared, warnings, attempts, cancelRequested, fnIn, server, issued, options, session, pending, fnOut >>

\* an authentication of the provider in use against an iteration count not
\* seen before
Derive ==
  /\ pbkdf2Calls < MaxDerivations
  /\ HICall(cryptoMethod, KeyIterations(pbkdf2Calls))

\* an authentication of either provider with the password, salt and iteration
\* count of the one before
Repeat ==
  /\ hiLog # << >>
  /\ \E method \in Methods : HICall(method, LastHI.iterations)

InitCache ==
  /\ cryptoMethod \in Methods
  /\ saslprep = FALSE
  /\ authContext = [ credentials |-> [ username |-> << "u", "s", "e", "r" >>,
                                       password |-> CacheData,
                                       source |-> << "a", "d", "m", "i", "n" >> ],
                     nonce |-> None, response |-> None ]
  /\ pc = "new"
  /\ sent = << >>
  /\ outstanding = 0
  /\ callbacks = << >>
  /\ thrown = None
  /\ replies = << >>
  /\ serverSignature = << >>
  /\ authMessage = << >>
  /\ prepared = << >>
  /\ warnings = 0
  /\ _hiCache = EmptyDict
  /\ _hiCacheCount = 0
  /\ hiLog = << >>
  /\ pbkdf2Calls = 0
  /\ attempts = 1
  /\ cancelRequested = FALSE
  /\ server = None
  /\ issued = None
  /\ options = None
  /\ session = None
  /\ pending = None
  /\ fnIn = << >>
  /\ fnOut = << >>

NextCache ==
  \/ Derive
  \/ Repeat

SpecCache == InitCache /\ [][NextCache]_vars

(* --------------------------------- C11 --------------------------------- *)

\* C11: the cache never holds more than 200 entries and _hiCacheCount is its
\* number of entries; a miss at 199 entries keeps them all and makes 200, a
\* miss at 200 entries leaves the new entry alone, a hit changes nothing.
C11_CacheBounded ==
  [][ /\ _hiCacheCount' = Cardinality(DOMAIN _hiCache')
      /\ _hiCacheCount' <= HiCacheLimit
      /\ (hiLog' # << >> /\ hiLog' # hiLog) =>
           LET call == hiLog'[Len(hiLog')]
           IN /\ call.cached => UNCHANGED << _hiCache, _hiCacheCount >>
              /\ (~call.cached /\ Cardinality(DOMAIN _hiCache) = HiCacheLimit - 1) =>
                   /\ Cardinality(DOMAIN _hiCache') = HiCacheLimit
                   /\ \A k \in DOMAIN _hiCache :
                        k \in DOMAIN _hiCache' /\ _hiCache'[k] = _hiCache[k]
                   /\ call.key \in DOMAIN _hiCache'
              /\ (~call.cached /\ Cardinality(DOMAIN _hiCache) = HiCacheLimit) =>
                   DOMAIN _hiCache' = { call.key } ]_vars

C11_Witness ==
  /\ hiLog # << >>
  /\ ~LastHI.cached
  /\ LastHI.sizeBefore = HiCacheLimit
  /\ Cardinality(DOMAIN _hiCache) = 1

(* --------------------------------- C12 --------------------------------- *)

\* C12: every call of HI returns the PBKDF2 value of its own method over its
\* password, salt and iteration count.
C12_DerivedByOwnMethod ==
  hiLog # << >> =>
    LastHI.value = Some(pbkdf2(LastHI.data, LastHI.salt, LastHI.iterations,
                               hiLengthMap[LastHI.method], LastHI.method))

(* --------------------------------- C13 --------------------------------- *)

\* two authentications in a row with the same password, salt and iteration
\* count
SamePair ==
  /\ Len(hiLog) = 2
  /\ hiLog[1].data = hiLog[2].data
  /\ hiLog[1].salt = hiLog[2].salt
  /\ hiLog[1].iterations = hiLog[2].iterations

PairDerivations ==
  (IF hiLog[1].computed THEN 1 ELSE 0) + (IF hiLog[2].computed THEN 1 ELSE 0)

StoredNonceAttr == Attr("r", Base64Encode(authContext.nonce[1]))

\* C14: an attempt whose authContext has no nonce submits no command, builds
\* no authMessage and ends with an error; the saslStart payload and the
\* authMessage carry the nonce stored on the authContext.
C14_NonceRequired ==
  /\ authContext.nonce = None =>
       /\ sent = << >>
       /\ authMessage = << >>
       /\ pc \in { "new", "randomBytes", "prepareFailed", "done" }
       /\ pc = "done" => (Len(callbacks) = 1 /\ callbacks[1].err # None)
  /\ \A i \in 1..Len(sent) :
       sent[i].cmd.name = "saslStart" =>
         Split(sent[i].cmd.payload, ",")[4] = StoredNonceAttr
  /\ authMessage # << >> => Split(authMessage, ",")[2] = StoredNonceAttr

C14_Witness ==
  /\ authContext.nonce = None
  /\ Speculative
  /\ pc = "done"

(* --------------------------------- C15 --------------------------------- *)

\* C15: once crypto.randomBytes has answered, prepare has called back exactly
\* once: with the error and no nonce stored when it failed, and otherwise with
\* the 24-byte nonce stored and the handshake document extended by the
\* client-first saslStart command and db = credentials.source.
C15_PrepareCallsBackOnce ==
  /\ Len(prepared) <= 1
  /\ pc = "prepareFailed" =>
       /\ Len(prepared) = 1
       /\ prepared[1].err # None
       /\ prepared[1].request = None
       /\ authContext.nonce = None
  /\ authContext.nonce # None =>
       /\ Len(authContext.nonce[1]) = NonceLength
       /\ Len(prepared) = 1
       /\ prepared[1].err = None
       /\ prepared[1].request # None
       /\ prepared[1].request[1].speculativeAuthenticate =
            [ command |-> makeFirstMessage(cryptoMethod, authContext.credentials,
                                           authContext.nonce[1]),
              db |-> authContext.credentials.source ]

(* --------------------------------- C16 --------------------------------- *)

\* C16: the missing-saslprep warning is emitted at most once by the process,
\* at least once when prepare or auth has been called with SCRAM-SHA-256 and
\* no saslprep, and never with SCRAM-SHA-1 or with saslprep available.
C16_WarnedOnce ==
  /\ warnings <= 1
  /\ (cryptoMethod = "sha1" \/ saslprep) => warnings = 0
  /\ (cryptoMethod = "sha256" /\ ~saslprep /\ (pc # "new" \/ attempts > 1)) =>
       warnings >= 1

(* --------------------------------- C17 --------------------------------- *)

\* the MD5 hex digest over the username as the credentials give it
DigestOfGivenUsername ==
  md5hex(authContext.credentials.username \o << ":", "m", "o", "n", "g", "o", ":" >>
           \o authContext.credentials.password)

\* C17: with SCRAM-SHA-1, once the client-final message has been submitted,
\* the key derived for it is the one of the MD5 hex digest of
\* username:mongo:password over the username of the credentials.
C17_DigestOverGivenUsername ==
  (cryptoMethod = "sha1" /\ pc = "waitContinue") =>
    \E key \in DOMAIN _hiCache : StartsWith(key, DigestOfGivenUsername \o << "_" >>)

(* --------------------------------- C18 --------------------------------- *)

\* the caller asks to cancel the attempt while a reply is awaited; nothing in
\* executeScram or continueScramConversation reads the request
Cancel ==
  /\ pc \in { "waitStart", "waitContinue" }
  /\ ~cancelRequested
  /\ cancelRequested' = TRUE
  /\ UNCHANGED << cryptoMethod, saslprep, authContext, pc, sent, outstanding,
                  callbacks, thrown, replies, serverSignature, authMessage,
                  prepared, warnings, _hiCache, _hiCacheCount, hiLog, pbkdf2Calls,
                  attempts, fnIn, server, issued, options, session, pending, fnOut >>

\* one attempt, during which the caller may cancel
NextCancel ==
  \/ Prepare
  \/ RandomBytesDone
  \/ Auth
  \/ StartReply
  \/ ContinueReply
  \/ RetryReply
  \/ Cancel

SpecCancel == Init /\ [][NextCancel]_vars

\* C18: once cancellation has been requested while a reply is awaited, the
\* next step of the attempt ends it with AuthCancelled and submits nothing.
C18_CancellationObserved ==
  [][ (cancelRequested /\ pc' # pc) =>
        /\ pc' = "done"
        /\ sent' = sent
        /\ Len(callbacks') = 1
        /\ callbacks'[1].err # None
        /\ callbacks'[1].err[1].name = "AuthCancelled" ]_vars

(* --------------------------------- C19 --------------------------------- *)

\* length of the payloads given to parsePayload
MaxTextLen == 4

PayloadAlphabet == { "k", "v", "=", "," }
PayloadTexts == UNION { [ 1..n -> PayloadAlphabet ] : n \in 0..MaxTextLen }

\* parsePayload applied to the payload of a reply
Parse ==
  /\ pc = "new"
  /\ fnOut' = parsePayload(fnIn)
  /\ pc' = "done"
  /\ UNCHANGED << cryptoMethod, saslprep, authContext, sent, outstanding,
                  callbacks, thrown, replies, serverSignature, authMessage,
                  prepared, warnings, _hiCache, _hiCacheCount, hiLog, pbkdf2Calls,
                  attempts, cancelRequested, fnIn, server, issued, options, session, pending >>

InitParse ==
  /\ fnIn \in PayloadTexts
  /\ fnOut = EmptyDict
  /\ cryptoMethod = "sha1"
  /\ saslprep = FALSE
  /\ authContext = [ credentials |-> [ username |-> << "u", "s", "e", "r" >>,
                                       password |-> << "p", "e", "n", "c", "i", "l" >>,
                                       source |-> << "a", "d", "m", "i", "n" >> ],
                     nonce |-> None, response |-> None ]
  /\ pc = "new"
  /\ sent = << >>
  /\ outstanding = 0
  /\ callbacks = << >>
  /\ thrown = None
  /\ replies = << >>
  /\ serverSignature = << >>
  /\ authMessage = << >>
  /\ prepared = << >>
  /\ warnings = 0
  /\ _hiCache = EmptyDict
  /\ _hiCacheCount = 0
  /\ hiLog = << >>
  /\ pbkdf2Calls = 0
  /\ attempts = 1
  /\ cancelRequested = FALSE
  /\ server = None
  /\ issued = None
  /\ options = None
  /\ session = None
  /\ pending = None

NextParse == Parse

SpecParse == InitParse /\ [][NextParse]_vars

\* the elements of the payload, the key of an element and what follows its
\* first '='
Elements == Split(fnIn, ",")
KeyOf(e) == IF IndexOf(e, "=") = 0 THEN e ELSE SubSeq(e, 1, IndexOf(e, "=") - 1)
RestOf(e) == SubSeq(e, IndexOf(e, "=") + 1, Len(e))

\* C19: for every element k=v of the payload that no later element with the
\* same key follows, the parsed map holds under k all that follows the first
\* '=' of the element, further '=' included (so a formatted map is read back).
C19_FirstEqualsOnly ==
  pc = "done" =>
    \A i \in 1..Len(Elements) :
      ( /\ IndexOf(Elements[i], "=") # 0
        /\ \A j \in (i + 1)..Len(Elements) : KeyOf(Elements[j]) # KeyOf(Elements[i]) )
      => Get(fnOut, KeyOf(Elements[i])) = Some(RestOf(Elements[i]))

(* --------------------------------- C20 --------------------------------- *)

\* length of the usernames given to cleanUsername
MaxUsernameLen == 3

UsernameAlphabet == { "u", "=", "," }
EscapeUsernames == UNION { [ 1..n -> UsernameAlphabet ] : n \in 0..MaxUsernameLen }

\* one attempt of the SCRAM-SHA-1 provider for each of the usernames
InitEscape ==
  /\ cryptoMethod = "sha1"
  /\ saslprep = TRUE
  /\ \E u \in EscapeUsernames :
       authContext = [ credentials |-> [ username |-> u,
                                         password |-> << "p", "e", "n", "c", "i", "l" >>,
                                         source |-> << "a", "d", "m", "i", "n" >> ],
                       nonce |-> None, response |-> None ]
  /\ pc = "new"
  /\ sent = << >>
  /\ outstanding = 0
  /\ callbacks = << >>
  /\ thrown = None
  /\ replies = << >>
  /\ serverSignature = << >>
  /\ authMessage = << >>
  /\ prepared = << >>
  /\ warnings = 0
  /\ _hiCache = EmptyDict
  /\ _hiCacheCount = 0
  /\ hiLog = << >>
  /\ pbkdf2Calls = 0
  /\ attempts = 1
  /\ cancelRequested = FALSE
  /\ server = None
  /\ issued = None
  /\ options = None
  /\ session = None
  /\ pending = None
  /\ fnIn = << >>
  /\ fnOut = << >>

NextEscape ==
  \/ Prepare
  \/ RandomBytesDone
  \/ Auth
  \/ StartReply
  \/ ContinueReply
  \/ RetryReply

SpecEscape == InitEscape /\ [][NextEscape]_vars

RECURSIVE Concat(_)
Concat(pieces) == IF pieces = << >> THEN << >> ELSE Head(pieces) \o Concat(Tail(pieces))

\* the username with its first '=' written =3D, its first ',' written =2C and
\* every other character as it is
EscapedOnce(u) ==
  Concat([ i \in 1..Len(u) |->
             IF u[i] = "=" /\ \A j \in 1..(i - 1) : u[j] # "=" THEN << "=", "3", "D" >>
             ELSE IF u[i] = "," /\ \A j \in 1..(i - 1) : u[j] # "," THEN << "=", "2", "C" >>
             ELSE << u[i] >> ])

\* the beginning of a client-first-bare message for the username of the
\* credentials
BareStart == << "n", "=" >> \o EscapedOnce(authContext.credentials.username) \o << ",", "r", "=" >>

\* C20: the saslStart payload, the speculative client-first message of
\* prepare and the authMessage all name the user by the username of the
\* credentials with only its first '=' and its first ',' escaped.
C20_EscapedOnceEverywhere ==
  /\ \A i \in 1..Len(sent) :
       sent[i].cmd.name = "saslStart" =>
         StartsWith(sent[i].cmd.payload, << "n", ",", "," >> \o BareStart)
  /\ \A i \in 1..Len(prepared) :
       prepared[i].request # None =>
         StartsWith(prepared[i].request[1].speculativeAuthenticate.command.payload,
                    << "n", ",", "," >> \o BareStart)
  /\ authMessage # << >> => StartsWith(authMessage, BareStart)

C20_Witness ==
  /\ authMessage # << >>
  /\ ~Speculative
  /\ LET u == authContext.credentials.username
     IN \E i, j \in 1..Len(u) : i < j /\ u[i] = "=" /\ u[j] = "="

(* --------------------------------- C21 --------------------------------- *)

\* C21: with credentials that are text, whatever the connection answers, auth
\* never ends by an exception escaping a handler, and an attempt that is over
\* has invoked the callback exactly once.
C21_CallbackExactlyOnce ==
  /\ Len(callbacks) <= 1
  /\ pc = "done" => Len(callbacks) = 1
  /\ CredentialsUsable => (thrown = None /\ pc # "thrown")

(* ------------------- cmap/wire_protocol/command.ts --------------------- *)

TransientTransactionError == "TransientTransactionError"

\* errors of the driver: MongoNetworkError extends MongoError; labels are
\* the error labels the object carries
DriverError(name, message, labels) ==
  [ name |-> name, message |-> message, labels |-> labels ]

IsMongoError(e) == e.name \in { "MongoError", "MongoNetworkError" }

\* maxWireVersion(server): the maxWireVersion of the ismaster or description,
\* undefined when the server has none of it
WireVersions == { None, Some(0), Some(7), Some(8) }

Servers ==
  [ maxWireVersion : WireVersions, autoEncrypter : BOOLEAN, sharded : BOOLEAN,
    mock : BOOLEAN ]

\* the cmd documents; encrypted marks what autoEncrypter.encrypt returned
CommandNames == { "find", "commitTransaction", "abortTransaction" }
Commands == { Some([ name |-> n, encrypted |-> FALSE, query |-> FALSE ]) : n \in CommandNames }

CommandOptions == [ readPreference : { "primary", "secondary" } ]

Sessions ==
  { None } \cup { Some([ inTransaction |-> b, unpinned |-> 0 ]) : b \in BOOLEAN }

maxWireVersion(s) == s.maxWireVersion

\* wireVersion && server.autoEncrypter
isClientEncryptionEnabled(s) ==
  /\ maxWireVersion(s) # None
  /\ maxWireVersion(s)[1] # 0
  /\ s.autoEncrypter

hasSessionSupport(s) == s.maxWireVersion # None /\ s.maxWireVersion[1] >= 6

supportsOpMsg(s) == s.maxWireVersion # None /\ s.maxWireVersion[1] >= 6 /\ ~s.mock

\* isTransactionCommand(finalCmd): the document has a commitTransaction or an
\* abortTransaction key of its own
isTransactionCommand(c) ==
  ~c.query /\ c.name \in { "commitTransaction", "abortTransaction" }

\* autoEncrypter.encrypt and autoEncrypter.decrypt, when they succeed
Encrypt(c) == [ c EXCEPT !.encrypted = TRUE ]
Decrypt(result) == [ result EXCEPT !.cipher = FALSE ]

\* what the pool hands to the handler of a write
PoolResponses == { Some([ result |-> [ ok |-> 1, cipher |-> c ] ]) : c \in BOOLEAN }

PoolErrors ==
  { DriverError("MongoNetworkError", "connection closed", {}),
    DriverError("MongoNetworkError", "connection closed", { TransientTransactionError }),
    DriverError("MongoError", "server error", { TransientTransactionError }),
    DriverError("MongoError", "server error", {}) }

PoolDeliveries ==
  { [ err |-> Some(e), result |-> None ] : e \in PoolErrors }
  \cup { [ err |-> None, result |-> r ] : r \in PoolResponses \cup { None } }

\* what pool.write may throw
WriteErrors ==
  { DriverError("MongoNetworkError", "socket destroyed", {}),
    DriverError("TypeError", "TypeError", {}) }

EncryptErrors == { DriverError("MongoError", "encrypt failed", {}) }
DecryptErrors == { DriverError("MongoError", "decrypt failed", {}) }
SessionErrors == { DriverError("MongoError", "Cannot use a session that has ended", {}) }

\* the callback given to _command: the caller's callback, or the
\* commandResponseHandler of _cryptCommand, which decrypts a reply
Callback(crypt, err, response) ==
  IF crypt /\ err = None /\ response # None
  THEN /\ pc' = "decrypting"
       /\ UNCHANGED callbacks
  ELSE /\ callbacks' = Append(callbacks, [ err |-> err, result |-> response ])
       /\ pc' = "done"

\* commandResponseHandler of _command with the variables it closes over
commandResponseHandler(handler, err, response) ==
  LET labelled ==
        IF /\ handler.inTransaction
           /\ err # None
           /\ err[1].name = "MongoNetworkError"
           /\ TransientTransactionError \notin err[1].labels
        THEN Some([ err[1] EXCEPT !.labels = @ \cup { TransientTransactionError } ])
        ELSE err
      unpin ==
        /\ handler.inTransaction
        /\ ~handler.commitTransaction
        /\ labelled # None
        /\ IsMongoError(labelled[1])
        /\ TransientTransactionError \in labelled[1].labels
  IN /\ session' = IF unpin THEN Some([ session[1] EXCEPT !.unpinned = @ + 1 ])
                   ELSE session
     /\ Callback(handler.crypt, labelled, response)

\* _command(server, ns, cmd, options, callback); crypt tells which callback
\* it was given
_command(c, crypt) ==
  LET finalCmd ==
        IF server.sharded /\ ~supportsOpMsg(server) /\ options.readPreference # "primary"
        THEN [ c EXCEPT !.query = TRUE ]
        ELSE c
      inTransaction ==
        session # None /\ (session[1].inTransaction \/ isTransactionCommand(finalCmd))
      handler == [ crypt |-> crypt, inTransaction |-> inTransaction,
                   commitTransaction |-> c.name = "commitTransaction" ]
  IN \/ \* applySession returns an error
        /\ hasSessionSupport(server) /\ session # None
        /\ \E e \in SessionErrors : Callback(crypt, Some(e), None)
        /\ UNCHANGED << sent, pending, session, replies >>
     \/ \* pool.write accepts the message
        /\ sent' = Append(sent, [ ns |-> Namespace(<< "a", "d", "m", "i", "n" >>),
                                  cmd |-> finalCmd ])
        /\ pending' = Some(handler)
        /\ pc' = "written"
        /\ UNCHANGED << callbacks, session, replies >>
     \/ \* pool.write throws
        /\ \E e \in WriteErrors : commandResponseHandler(handler, Some(e), None)
        /\ UNCHANGED << sent, pending, replies >>

CommandFrame ==
  UNCHANGED << cryptoMethod, saslprep, authContext, outstanding, thrown,
               serverSignature, authMessage, prepared, warnings, _hiCache,
               _hiCacheCount, hiLog, pbkdf2Calls, attempts, cancelRequested,
               fnIn, fnOut, server, issued, options >>

\* command(server, ns, cmd, options, callback)
CommandCall ==
  /\ pc = "new"
  /\ IF issued = None THEN
       /\ callbacks' = Append(callbacks,
            [ err |-> Some(DriverError("MongoError", "command does not return a cursor", {})),
              result |-> None ])
       /\ pc' = "done"
       /\ UNCHANGED << sent, pending, session, replies >>
     ELSE IF ~isClientEncryptionEnabled(server) THEN
       _command(issued[1], FALSE)
     ELSE IF maxWireVersion(server) = None \/ maxWireVersion(server)[1] < 8 THEN
       /\ callbacks' = Append(callbacks,
            [ err |-> Some(DriverError("MongoError",
                       "Auto-encryption requires a minimum MongoDB version of 4.2", {})),
              result |-> None ])
       /\ pc' = "done"
       /\ UNCHANGED << sent, pending, session, replies >>
     ELSE
       /\ pc' = "encrypting"
       /\ UNCHANGED << sent, pending, session, replies, callbacks >>
  /\ CommandFrame

\* the callback _cryptCommand gives to autoEncrypter.encrypt
EncryptDone ==
  /\ pc = "encrypting"
  /\ \/ /\ \E e \in EncryptErrors :
             callbacks' = Append(callbacks, [ err |-> Some(e), result |-> None ])
        /\ pc' = "done"
        /\ UNCHANGED << sent, pending, session, replies >>
     \/ _command(Encrypt(issued[1]), TRUE)
  /\ CommandFrame

\* the pool answers the write
PoolReply ==
  /\ pc = "written"
  /\ \E d \in PoolDeliveries :
       /\ replies' = Append(replies, d)
       /\ commandResponseHandler(pending[1], d.err, d.result)
  /\ UNCHANGED << sent, pending >>
  /\ CommandFrame

\* the callback _cryptCommand gives to autoEncrypter.decrypt
DecryptDone ==
  /\ pc = "decrypting"
  /\ LET response == replies[Len(replies)].result[1]
     IN \/ \E e \in DecryptErrors :
             callbacks' = Append(callbacks, [ err |-> Some(e), result |-> None ])
        \/ callbacks' = Append(callbacks,
             [ err |-> None,
               result |-> Some([ response EXCEPT !.result = Decrypt(@) ]) ])
  /\ pc' = "done"
  /\ UNCHANGED << sent, pending, session, replies >>
  /\ CommandFrame

InitCommand ==
  /\ server \in Servers
  /\ issued \in Commands \cup { None }
  /\ options \in CommandOptions
  /\ session \in Sessions
  /\ pending = None
  /\ pc = "new"
  /\ sent = << >>
  /\ callbacks = << >>
  /\ replies = << >>
  /\ cryptoMethod = "sha1"
  /\ saslprep = FALSE
  /\ authContext = [ credentials |-> [ username |-> << "u", "s", "e", "r" >>,
                                       password |-> << "p", "e", "n", "c", "i", "l" >>,
                                       source |-> << "a", "d", "m", "i", "n" >> ],
                     nonce |-> None, response |-> None ]
  /\ outstanding = 0
  /\ thrown = None
  /\ serverSignature = << >>
  /\ authMessage = << >>
  /\ prepared = << >>
  /\ warnings = 0
  /\ _hiCache = EmptyDict
  /\ _hiCacheCount = 0
  /\ hiLog = << >>
  /\ pbkdf2Calls = 0
  /\ attempts = 1
  /\ cancelRequested = FALSE
  /\ fnIn = << >>
  /\ fnOut = << >>

NextCommand ==
  \/ CommandCall
  \/ EncryptDone
  \/ PoolReply
  \/ DecryptDone

SpecCommand == InitCommand /\ [][NextCommand]_vars

(* --------------------------------- C22 --------------------------------- *)

MinimumVersionError ==
  DriverError("MongoError", "Auto-encryption requires a minimum MongoDB version of 4.2", {})

\* C22: with an autoEncrypter on the server, every command written to the
\* pool was returned by encrypt; a max wire version below 8, 0 and unknown
\* included, ends the call with the minimum-version error and nothing
\* written; an encrypt error is delivered with nothing written; a reply
\* delivered without error has been decrypted.
C22_OnlyEncryptedWritten ==
  (server # None /\ server.autoEncrypter /\ issued # None) =>
    /\ \A i \in 1..Len(sent) : sent[i].cmd.encrypted
    /\ ((maxWireVersion(server) = None \/ maxWireVersion(server)[1] < 8) /\ pc # "new") =>
         /\ pc = "done"
         /\ sent = << >>
         /\ callbacks = << [ err |-> Some(MinimumVersionError), result |-> None ] >>
    /\ \A i \in 1..Len(callbacks) :
         /\ (callbacks[i].err # None /\ callbacks[i].err[1] \in EncryptErrors) => sent = << >>
         /\ (callbacks[i].err = None /\ callbacks[i].result # None) =>
              ~callbacks[i].result[1].result.cipher

(* --------------------------------- C23 --------------------------------- *)

\* the command was issued with a session that is in a transaction, or is
\* itself a transaction command issued with a session
InTransactionCall ==
  /\ session # None
  /\ issued # None
  /\ (session[1].inTransaction \/ issued[1].name \in { "commitTransaction", "abortTransaction" })

\* the labels of the error the pool delivered, none when pool.write threw
DeliveredLabels ==
  IF replies # << >> /\ replies[1].err # None THEN replies[1].err[1].labels ELSE { }

\* C23: in a transaction every MongoNetworkError given to the callback
\* carries TransientTransactionError, the server is unpinned exactly when the
\* error given to the callback carries the label and the command is not
\* commitTransaction, and the callback gets the error and result of the pool;
\* outside a transaction no label is added and the server is never unpinned.
C23_TransientLabel ==
  /\ InTransactionCall =>
       /\ \A i \in 1..Len(callbacks) :
            (callbacks[i].err # None /\ callbacks[i].err[1].name = "MongoNetworkError") =>
              TransientTransactionError \in callbacks[i].err[1].labels
       /\ session[1].unpinned <= 1
       /\ pc = "done" =>
            (session[1].unpinned = 1 <=>
               /\ issued[1].name # "commitTransaction"
               /\ \E i \in 1..Len(callbacks) :
                    /\ callbacks[i].err # None
                    /\ TransientTransactionError \in callbacks[i].err[1].labels)
  /\ (pc = "done" /\ replies # << >> /\ ~pending[1].crypt) =>
       /\ Len(callbacks) = 1
       /\ callbacks[1].result = replies[1].result
       /\ (callbacks[1].err = None) = (replies[1].err = None)
       /\ callbacks[1].err # None =>
            /\ callbacks[1].err[1].name = replies[1].err[1].name
            /\ callbacks[1].err[1].message = replies[1].err[1].message
  /\ (issued # None /\ ~InTransactionCall) =>
       /\ session # None => session[1].unpinned = 0
       /\ \A i \in 1..Len(callbacks) :
            callbacks[i].err # None => callbacks[i].err[1].labels = DeliveredLabels

\* the command is written as given, not inside a $query document
WrittenAsGiven ==
  ~(server.sharded /\ ~supportsOpMsg(server) /\ options.readPreference # "primary")

(* ------------------------- command monitoring -------------------------- *)

\* A document is the sequence of its << key, value >> pairs in key order;
\* the empty document {} is << >>.

SENSITIVE_COMMANDS ==
  { "authenticate", "saslStart", "saslContinue", "getnonce", "createUser",
    "updateUser", "copydbgetnonce", "copydbsaslstart", "copydb" }

\* Object.keys(commandDoc)[0]
extractCommandName(commandDoc) == commandDoc[1][1]

\* command.ns, command.ns.split('.')[0], command.ns.split('.')[1]
namespace(c) == c.ns
databaseName(c) == Split(c.ns, ".")[1]
collectionName(c) == Split(c.ns, ".")[2]

maybeRedact(commandName, result) ==
  IF commandName \in SENSITIVE_COMMANDS THEN << >> ELSE result

AdminCmd == << "a", "d", "m", "i", "n", ".", "$", "c", "m", "d" >>

\* result[key] = value for a value that is defined
Assign(doc, key, value) ==
  IF value = None THEN doc ELSE Append(doc, << key, value[1] >>)

\* extractCommand(command); a command is a Msg, a Query (legacy when its
\* query has a $query), a GetMore or a KillCursor
extractCommand(c) ==
  IF c.kind = "GetMore" THEN
    << << "getMore", c.cursorId >>, << "collection", collectionName(c) >>,
       << "batchSize", c.numberToReturn[1] >> >>
  ELSE IF c.kind = "KillCursor" THEN
    << << "killCursors", collectionName(c) >>, << "cursors", c.cursorId >> >>
  ELSE IF c.kind = "Msg" THEN c.doc
  ELSE IF c.legacy THEN
    LET result == IF c.ns = AdminCmd
                  THEN c.doc
                  ELSE << << "find", collectionName(c) >>, << "filter", c.doc >> >>
    IN Assign(Assign(result, "skip", c.numberToSkip), "batchSize", c.numberToReturn)
  ELSE c.doc

\* extractReply(command, reply)
extractReply(c, reply) ==
  IF c.kind = "GetMore" THEN
    << << "ok", << "1" >> >>,
       << "cursor", << << "id", reply.cursorId >>, << "ns", namespace(c) >>,
                       << "nextBatch", reply.documents >> >> >> >>
  ELSE IF c.kind = "KillCursor" THEN
    << << "ok", << "1" >> >>, << "cursorsUnknown", c.cursorId >> >>
  ELSE IF c.kind = "Query" /\ c.legacy THEN
    << << "ok", << "1" >> >>,
       << "cursor", << << "id", reply.cursorId >>, << "ns", namespace(c) >>,
                       << "firstBatch", reply.documents >> >> >> >>
  ELSE reply.result

\* extractConnectionDetails(connection)
extractConnectionDetails(connection) ==
  [ address |-> connection.address, connectionId |-> connection.id ]

\* new CommandStartedEvent(pool, command)
CommandStartedEvent(pool, c) ==
  LET cmd == extractCommand(c)
      commandName == extractCommandName(cmd)
      details == extractConnectionDetails(pool)
  IN [ commandObj |-> IF commandName \in SENSITIVE_COMMANDS
                      THEN Some(<< << commandName, << "t", "r", "u", "e" >> >> >>)
                      ELSE None,
       address |-> details.address,
       connectionId |-> details.connectionId,
       requestId |-> c.requestId,
       databaseName |-> databaseName(c),
       commandName |-> commandName,
       command |-> cmd ]

\* new CommandSucceededEvent(pool, command, reply, started)
CommandSucceededEvent(pool, c, reply, duration) ==
  LET cmd == extractCommand(c)
      commandName == extractCommandName(cmd)
      details == extractConnectionDetails(pool)
  IN [ address |-> details.address,
       connectionId |-> details.connectionId,
       requestId |-> c.requestId,
       commandName |-> commandName,
       duration |-> duration,
       reply |-> maybeRedact(commandName, extractReply(c, reply)) ]

\* new CommandFailedEvent(pool, command, error, started)
CommandFailedEvent(pool, c, error, duration) ==
  LET cmd == extractCommand(c)
      commandName == extractCommandName(cmd)
      details == extractConnectionDetails(pool)
  IN [ address |-> details.address,
       connectionId |-> details.connectionId,
       requestId |-> c.requestId,
       commandName |-> commandName,
       duration |-> duration,
       failure |-> maybeRedact(commandName, error) ]

\* the commands handed to the events: a name and a body
MonitoredNames == SENSITIVE_COMMANDS \cup { "find" }
Bodies == { << "p", "1" >>, << "p", "2" >> }
CommandDoc(name, body) == << << name, << "1" >> >>, << "payload", body >> >>

Namespaces == { AdminCmd, << "a", "p", "p", ".", "$", "c", "m", "d" >> }

MonitoredCommands ==
  { [ kind |-> "Msg", legacy |-> FALSE, ns |-> ns, requestId |-> 1,
      doc |-> CommandDoc(n, b), cursorId |-> << "0" >>,
      numberToSkip |-> None, numberToReturn |-> None ] :
      n \in MonitoredNames, b \in Bodies, ns \in Namespaces }
  \cup
  { [ kind |-> "Query", legacy |-> l, ns |-> ns, requestId |-> 1,
      doc |-> CommandDoc(n, b), cursorId |-> << "0" >>,
      numberToSkip |-> Some(<< "0" >>), numberToReturn |-> Some(<< "-", "1" >>) ] :
      l \in BOOLEAN, n \in MonitoredNames, b \in Bodies, ns \in Namespaces }
  \cup
  { [ kind |-> k, legacy |-> FALSE, ns |-> ns, requestId |-> 1,
      doc |-> << >>, cursorId |-> << "9" >>,
      numberToSkip |-> None, numberToReturn |-> Some(<< "2" >>) ] :
      k \in { "GetMore", "KillCursor" }, ns \in Namespaces }

MonitoredReplies ==
  { [ result |-> << << "ok", << "1" >> >>, << "payload", b >> >>,
      cursorId |-> << "0" >>, documents |-> << >> ] : b \in Bodies }

MonitoredErrors == { << << "errmsg", << "b", "a", "d" >> >>, << "code", << "1", "8" >> >> >> }

MonitoredPools == { [ address |-> << "h" >>, id |-> i ] : i \in { None, Some(7) } }

\* the three events of one command are built
Publish ==
  /\ pc = "new"
  /\ fnOut' = [ started |-> CommandStartedEvent(fnIn.pool, fnIn.command),
                succeeded |-> CommandSucceededEvent(fnIn.pool, fnIn.command,
                                                    fnIn.reply, fnIn.duration),
                failed |-> CommandFailedEvent(fnIn.pool, fnIn.command,
                                              fnIn.error, fnIn.duration) ]
  /\ pc' = "done"
  /\ UNCHANGED << cryptoMethod, saslprep, authContext, sent, outstanding,
                  callbacks, thrown, replies, serverSignature, authMessage,
                  prepared, warnings, _hiCache, _hiCacheCount, hiLog, pbkdf2Calls,
                  attempts, cancelRequested, fnIn, server, issued, options,
                  session, pending >>

InitEvents ==
  /\ fnIn \in [ pool : MonitoredPools, command : MonitoredCommands,
                reply : MonitoredReplies, error : MonitoredErrors, duration : { 3 } ]
  /\ fnOut = << >>
  /\ pc = "new"
  /\ cryptoMethod = "sha1"
  /\ saslprep = FALSE
  /\ authContext = [ credentials |-> [ username |-> << "u", "s", "e", "r" >>,
                                       password |-> << "p", "e", "n", "c", "i", "l" >>,
                                       source |-> << "a", "d", "m", "i", "n" >> ],
                     nonce |-> None, response |-> None ]
  /\ sent = << >>
  /\ outstanding = 0
  /\ callbacks = << >>
  /\ thrown = None
  /\ replies = << >>
  /\ serverSignature = << >>
  /\ authMessage = << >>
  /\ prepared = << >>
  /\ warnings = 0
  /\ _hiCache = EmptyDict
  /\ _hiCacheCount = 0
  /\ hiLog = << >>
  /\ pbkdf2Calls = 0
  /\ attempts = 1
  /\ cancelRequested = FALSE
  /\ server = None
  /\ issued = None
  /\ options = None
  /\ session = None
  /\ pending = None

NextEvents == Publish

SpecEvents == InitEvents /\ [][NextEvents]_vars

(* --------------------------------- C24 --------------------------------- *)

\* the command given to the events is a sensitive command
SensitiveIssued ==
  /\ fnIn.command.kind \in { "Msg", "Query" }
  /\ fnIn.command.doc[1][1] \in SENSITIVE_COMMANDS

\* the input with the body of its command replaced
WithBody(in, body) ==
  [ in EXCEPT !.command.doc = CommandDoc(in.command.doc[1][1], body) ]

EventsOf(in) ==
  [ started |-> CommandStartedEvent(in.pool, in.command),
    succeeded |-> CommandSucceededEvent(in.pool, in.command, in.reply, in.duration),
    failed |-> CommandFailedEvent(in.pool, in.command, in.error, in.duration) ]

\* C24: for a sensitive command the succeeded event's reply and the failed
\* event's failure are the empty document, the started event has no payload
\* in its command, and the three events are the same for every body.
C24_SensitiveHidden ==
  (pc = "done" /\ SensitiveIssued) =>
    /\ fnOut.succeeded.reply = << >>
    /\ fnOut.failed.failure = << >>
    /\ \A i \in 1..Len(fnOut.started.command) : fnOut.started.command[i][1] # "payload"
    /\ \A body \in Bodies : EventsOf(WithBody(fnIn, body)) = fnOut

====
